---- MODULE Spec2Model ----
(***************************************************************************)
(* A model of the SIP proxy network filter: the ConnectionManager of one   *)
(* downstream connection (conn_manager.cc), the per-worker transaction     *)
(* table with its audit timer (router/router_impl.h), and the parts of the *)
(* decoder, router and upstream request they are driven by.                *)
(*                                                                         *)
(* A handler of the program is one action.  Handlers call each other, so   *)
(* each is written as an operator from a state record to a state record    *)
(* and the action commits the record the outermost handler returns.        *)
(* Time is counted in seconds.                                             *)
(***************************************************************************)
EXTENDS Integers, Sequences, FiniteSets, TLC

\* ------------------------------------------------------------------ bounds
MaxReq == 2              \* requests the downstream peer sends
MaxBurst == 3            \* requests of one burst (SpecOrder)
MaxResp == 1             \* responses the upstream hosts send
MaxTime == 4             \* the clock stops here
TransactionTimeout == 1  \* settings.transaction_timeout of the run, in seconds

\* --------------------------------------------------------- program constants
AuditPeriod == 2         \* audit_timer_->enableTimer(std::chrono::seconds(2))

LocalIp == "127.0.0.1"
ForeignEp == "192.0.2.1"
NoHost == ""
Hosts == {"10.0.0.5", "10.0.0.7"}
LbPick == "10.0.0.5"      \* the host the load balancer's policy offers first
TIDs == {"z9hG4bK-1", "z9hG4bK-2"}
Methods == {"Invite", "Ack"}
Keys == {"abc"}
NoKey == ""

Stages == <<"transportBegin", "messageBegin", "messageEnd", "transportEnd">>
FilterChain == <<"custom", "router">>
\* what the configured filter ahead of the router does at one stage of a
\* request: whether it sends a local reply, and the status it returns
\* (the DirectResponse it replies with encodes to result)
ResponseTypes == {"SuccessReply", "ErrorReply", "Exception"}
Quiet == [stage |-> 0, reply |-> "none", status |-> "Continue", result |-> "Exception"]
FilterBehaviours ==
  [stage : {2, 3}, reply : {"none", "reply", "reply_end"},
   status : {"Continue", "StopIteration"}, result : {"Exception"}]
\* a filter that lets a request through or replies to it with any DirectResponse
ReplyBehaviours ==
  {Quiet} \cup [stage : {2}, reply : {"reply", "reply_end"}, status : {"Continue"},
                result : ResponseTypes]

\* string_view::npos, and the text setTransactionId looks for
Npos == -1
BranchEq == <<"b", "r", "a", "n", "c", "h", "=">>
\* Header values are made of at most MaxPieces of these pieces
MaxPieces == 3
Pieces ==
  {BranchEq, <<"b", "r", "a", "n">>, <<"B", "r", "a", "n", "c", "h", "=">>,
   <<";">>, <<">">>, <<"=">>, <<"z", "9">>, <<"<", "s", "i", "p">>}
RECURSIVE Concat(_)
Concat(ps) == IF ps = <<>> THEN <<>> ELSE Head(ps) \o Concat(Tail(ps))
HeaderValues ==
  {Concat(ps) : ps \in UNION {[1..n -> Pieces] : n \in 0..MaxPieces}}
\* no header value has been given to setTransactionId
NoHeader == [data |-> <<>>, before |-> {}, transaction_id |-> {}, done |-> TRUE]

\* ----------------------------------------------------- associative containers
\* A map is a set of <<key, value>> pairs, so that what emplace does with a key
\* that is already there is the model's to get right.
Has(map, k) == \E p \in map : p[1] = k
At(map, k) == (CHOOSE p \in map : p[1] = k)[2]
EmplaceOverwrite(map, k, v) == {p \in map : p[1] # k} \cup {<<k, v>>}
Emplace(map, k, v) == IF Has(map, k) THEN map ELSE map \cup {<<k, v>>}
EraseKeepAll(map, k) == map
Erase(map, k) == {p \in map : p[1] # k}
Replace(map, k, v) == {p \in map : p[1] # k} \cup {<<k, v>>}

\* ------------------------------------------------------------------- state
VARIABLES
  conn_state,            \* read_callbacks_->connection().state(): "Open" | "Closed"
  connected_seen,        \* the Connected event of the connection was raised
  request_buffer,        \* request_buffer_: the undecoded messages, oldest first
  metadata,              \* the MessageMetadata objects, by message number
  dec,                   \* decoder_: its current metadata and the stage it is paused at
  transactions,          \* transactions_: transaction-id -> ActiveTrans
  objs,                  \* the ActiveTrans objects ever constructed
  stats,                 \* stats_ and the router's counters
  wire,                  \* what was encoded and written, to either side
  upstream_log,          \* per host, the requests written to it, in order, each
                         \* with whether it asked the TRA and whether it waited
                         \* in the request buffer
  transaction_info_map,  \* transaction_info_map_: transaction-id -> TransactionInfoItem
  upstream_request_map,  \* upstream_request_map_: host -> UpstreamRequest
  p_cookie_ip_map,       \* p_cookie_ip_map_: affinity key -> host
  tra_outstanding,       \* keys of the TRA Retrieve requests in flight
  now,                   \* dispatcher_.timeSource().systemTime()
  audit_deadline,        \* when audit_timer_ fires
  deferred,              \* the dispatcher's deferred-delete list
  crashed,               \* the worker died (uncaught exception, use after free)
  nresp,                 \* responses received from upstream so far
  ndeh_calls,            \* the newDecoderEventHandler calls of the latest handler
  reset_calls,           \* the resetAllTrans calls of the latest handler
  tra_calls,             \* the TRA responses the latest handler took, with what each did
  lookups,               \* the getTransaction calls of the latest handler, with what each found
  error_calls,           \* the onError calls of the latest handler, with what each did
  walks,                 \* the filter invocations of the latest handler, in order
  stopped_at,            \* position of the filter that stopped the paused stage (0: none)
  sweeps,                \* the audit sweeps of the latest handler: the items before and after
  reply_calls,           \* the calls of ConnectionManager::sendLocalReply in the last handler
  response_calls,        \* the calls of ActiveTrans::upstreamData in the last handler
  inserts,               \* the insertTransaction calls of the last handler and what a lookup yields after each
  clean,                 \* resetAllTrans has run and no request was decoded since
  first_trans,           \* transaction-id -> handler of its first non-ACK request
  verdicts,              \* what shouldSelectAnotherHost answered, per host asked
  selections,            \* the hosts that host selection ended on, per destination
  header,                \* a header value given to setTransactionId: the id before and after
  peer,                  \* a second downstream connection of the worker: its manager's fields
  manager                \* the ConnectionManager's settings, tra_client_ and the calls made through it

proxy_vars == <<conn_state, connected_seen, request_buffer, metadata, dec, transactions,
          objs, stats, wire, upstream_log, transaction_info_map,
          upstream_request_map, p_cookie_ip_map, tra_outstanding, now,
          audit_deadline, deferred, crashed, nresp, ndeh_calls,
          reset_calls, tra_calls, lookups, error_calls, walks, stopped_at, sweeps, reply_calls, response_calls, inserts, clean, first_trans, verdicts, selections>>
vars == <<proxy_vars, header, peer, manager>>

\* The state as one record; ub is the outcome this run of the handler gives to
\* undefined behaviour ("intact": freed memory still reads as it was; "crash"),
\* closes the close types the handler has called connection().close() with,
\* custom what the configured filter does in this handler, reset_ids the
\* transaction-ids whose item the handler's audit sweep called resetTrans() on.
Cur(ub) ==
  [conn_state |-> conn_state, connected_seen |-> connected_seen,
   request_buffer |-> request_buffer, metadata |-> metadata, dec |-> dec,
   transactions |-> transactions, objs |-> objs, stats |-> stats, wire |-> wire,
   upstream_log |-> upstream_log, transaction_info_map |-> transaction_info_map,
   upstream_request_map |-> upstream_request_map,
   p_cookie_ip_map |-> p_cookie_ip_map, tra_outstanding |-> tra_outstanding,
   now |-> now, audit_deadline |-> audit_deadline, deferred |-> deferred,
   crashed |-> crashed, nresp |-> nresp,
   ndeh_calls |-> <<>>, reset_calls |-> <<>>, tra_calls |-> <<>>, lookups |-> <<>>, error_calls |-> <<>>, walks |-> <<>>, stopped_at |-> stopped_at, sweeps |-> <<>>, reply_calls |-> <<>>, response_calls |-> <<>>, inserts |-> <<>>, clean |-> clean,
   first_trans |-> first_trans, verdicts |-> verdicts,
   selections |-> selections, ub |-> ub, self |-> 1, other |-> peer,
   answering |-> 1, closes |-> <<>>, writes |-> 0,
   custom |-> Quiet,
   reset_ids |-> {}]

CommitProxy(s) ==
  /\ conn_state' = s.conn_state
  /\ connected_seen' = s.connected_seen
  /\ request_buffer' = s.request_buffer
  /\ metadata' = s.metadata
  /\ dec' = s.dec
  /\ transactions' = s.transactions
  /\ objs' = s.objs
  /\ stats' = s.stats
  /\ wire' = s.wire
  /\ upstream_log' = s.upstream_log
  /\ transaction_info_map' = s.transaction_info_map
  /\ upstream_request_map' = s.upstream_request_map
  /\ p_cookie_ip_map' = s.p_cookie_ip_map
  /\ tra_outstanding' = s.tra_outstanding
  /\ now' = s.now
  /\ audit_deadline' = s.audit_deadline
  /\ deferred' = s.deferred
  /\ crashed' = s.crashed
  /\ nresp' = s.nresp
  /\ ndeh_calls' = s.ndeh_calls
  /\ reset_calls' = s.reset_calls
  /\ tra_calls' = s.tra_calls
  /\ lookups' = s.lookups
  /\ error_calls' = s.error_calls
  /\ walks' = s.walks
  /\ stopped_at' = s.stopped_at
  /\ sweeps' = s.sweeps
  /\ reply_calls' = s.reply_calls
  /\ response_calls' = s.response_calls
  /\ inserts' = s.inserts
  /\ clean' = s.clean
  /\ first_trans' = s.first_trans
  /\ verdicts' = s.verdicts
  /\ selections' = s.selections

Commit(s) == CommitProxy(s) /\ header' = header /\ peer' = peer /\ manager' = manager

UB == {"intact", "crash"}

\* ------------------------------------------------------------ MessageMetadata
NullMd == 0
FreeMd ==
  [tid |-> "", method |-> "", key |-> NoKey, ep |-> "", destination |-> "",
   queried |-> FALSE, waited |-> FALSE, conn |-> 1]

\* A request as the decoder parses it: the branch token of its top Via, its
\* method, and the affinity key (ep parameter) of its top Route, if it has one.
NewMetadata(tid, method, key) ==
  [tid |-> tid, method |-> method, key |-> key,
   ep |-> IF key = NoKey THEN "" ELSE ForeignEp,
   destination |-> "", queried |-> FALSE, waited |-> FALSE, conn |-> 1]

InMsgs == {NewMetadata(t, m, k) : t \in TIDs, m \in Methods, k \in Keys \cup {NoKey}}

SetEP(md, data) == [md EXCEPT !.ep = data]
SetDestination(md, destination) == [md EXCEPT !.destination = destination]

\* Header values are sequences of characters, positions count from 0 as in
\* absl::string_view, and an optional is the empty set or a singleton.
\* whether pat occurs in data at position i
OccursAt(data, pat, i) ==
  /\ i + Len(pat) <= Len(data)
  /\ \A k \in 1..Len(pat) : data[i + k] = pat[k]

\* string_view::find(pat, from): the scan from position from upwards
RECURSIVE FindFrom(_, _, _)
FindFrom(data, pat, from) ==
  IF from + Len(pat) > Len(data) THEN Npos
  ELSE IF OccursAt(data, pat, from) THEN from
  ELSE FindFrom(data, pat, from + 1)

\* string_view::rfind(pat): the scan from the end downwards
RECURSIVE RFindFrom(_, _, _)
RFindFrom(data, pat, from) ==
  IF from < 0 THEN Npos
  ELSE IF OccursAt(data, pat, from) THEN from
  ELSE RFindFrom(data, pat, from - 1)

RFind(data, pat) == RFindFrom(data, pat, Len(data) - Len(pat))
Find(data, pat) == FindFrom(data, pat, 0)

\* string_view::find_first_of(chars, from)
RECURSIVE FindFirstOf(_, _, _)
FindFirstOf(data, chars, from) ==
  IF from >= Len(data) THEN Npos
  ELSE IF data[from + 1] \in chars THEN from
  ELSE FindFirstOf(data, chars, from + 1)

\* string_view::substr(pos, n)
Substr(data, pos, n) == SubSeq(data, pos + 1, pos + n)

\* end_index of setTransactionId, npos replaced by the size of the value
EndIndex(data, found) == IF found = Npos THEN Len(data) ELSE found

\* MessageMetadata::setTransactionId: transaction_id is the optional it leaves
SetTransactionIdFrom(transaction_id, data, start_index) ==
  IF start_index = Npos THEN transaction_id
  ELSE {Substr(data, start_index + Len(BranchEq),
               EndIndex(data, FindFirstOf(data, {";", ">"}, start_index + Len(BranchEq)))
               - (start_index + Len(BranchEq)))}

SetTransactionId(transaction_id, data) ==
  SetTransactionIdFrom(transaction_id, data, Find(data, BranchEq))

GetLocalIp == LocalIp

\* What the encoder puts on the wire, as far as the model follows it: the EP
\* parameter, taken from the metadata's EP.
Encode(md) == md.ep

\* ---------------------------------------------------------------- ActiveTrans
NewActiveTrans(tid, start) ==
  [tid |-> tid, start |-> start, st |-> "live", metadata |-> NullMd,
   local_response_sent |-> FALSE, ever_sent |-> FALSE, resets |-> 0,
   audit_age |-> -1, conn |-> 1]

\* The object was destroyed: a reference to it dangles.
Dangling(s, o) == s.objs[o].st = "destroyed"

RECURSIVE SumResets(_, _)
SumResets(os, i) == IF i = 0 THEN 0 ELSE os[i].resets + SumResets(os, i - 1)

Inc(st, field) == [st EXCEPT ![field] = @ + 1]

\* ----------------------------------------------------------- ConnectionManager
\* transactions_.at() throws std::out_of_range for an id that is not indexed, and
\* nothing on the way up catches it.
DoDeferredTransDestroy(s, o) ==
  LET k == s.objs[o].tid IN
  IF s.crashed THEN s
  ELSE IF ~Has(s.transactions, k) THEN [s EXCEPT !.crashed = TRUE]
  ELSE LET victim == At(s.transactions, k) IN
       [s EXCEPT !.deferred = @ \cup {victim},
                 !.objs[victim].st = "deferred",
                 !.transactions = Erase(@, k)]

OnReset(s, o) ==
  IF s.crashed THEN s
  ELSE DoDeferredTransDestroy([s EXCEPT !.objs[o].resets = @ + 1], o)

RECURSIVE ResetEach(_, _, _)
ResetEach(s, todo, local_reset) ==
  IF todo = {} \/ s.crashed THEN s
  ELSE LET p == CHOOSE q \in todo : TRUE
           s1 == [s EXCEPT !.stats =
                    Inc(@, IF local_reset THEN "cx_destroy_local_with_active_rq"
                                          ELSE "cx_destroy_remote_with_active_rq")]
       IN ResetEach(OnReset(s1, p[2]), todo \ {p}, local_reset)

\* r is the state the loop of resetAllTrans leaves; the call is entered in the
\* log of the handler's resetAllTrans calls
LogReset(s, r, local_reset, cause) ==
  [r EXCEPT
     !.reset_calls = Append(@,
        [cause |-> cause, local_reset |-> local_reset, clean |-> s.clean,
         active |-> Cardinality(s.transactions),
         d_local |-> r.stats.cx_destroy_local_with_active_rq
                     - s.stats.cx_destroy_local_with_active_rq,
         d_remote |-> r.stats.cx_destroy_remote_with_active_rq
                      - s.stats.cx_destroy_remote_with_active_rq,
         d_reset |-> SumResets(r.objs, Len(r.objs)) - SumResets(s.objs, Len(s.objs)),
         left |-> Cardinality(r.transactions)]),
     !.clean = TRUE]

ResetAllTrans(s, local_reset, cause) ==
  LogReset(s, ResetEach(s, s.transactions, local_reset), local_reset, cause)

OnEventF(s, event) == ResetAllTrans(s, event = "LocalClose", event)

\* Network::Connection::close: a connection that is not yet closed closes and
\* raises LocalClose to its callbacks.
Close(s, type) ==
  IF s.crashed THEN s
  ELSE IF s.conn_state = "Closed" THEN [s EXCEPT !.closes = Append(@, type)]
  ELSE OnEventF([s EXCEPT !.conn_state = "Closed", !.closes = Append(@, type)],
                "LocalClose")

AppExceptionEncode == "Exception"

CounterOfException(result) == "response_exception"
CounterOf(result) ==
  CASE result = "SuccessReply" -> "response_success"
    [] result = "ErrorReply" -> "response_error"
    [] OTHER -> "response_exception"

\* s is the state sendLocalReply was called in, r the state it left
LogLocalReply(s, r, result, end_stream) ==
  [r EXCEPT !.reply_calls = Append(@,
     [was_closed |-> s.conn_state = "Closed", result |-> result,
      end_stream |-> end_stream,
      writes |-> r.writes - s.writes,
      wrote |-> [to |-> "downstream", kind |-> "local_reply", ep |-> LocalIp] \in r.wire,
      wire_same |-> r.wire = s.wire,
      d_success |-> r.stats.response_success - s.stats.response_success,
      d_error |-> r.stats.response_error - s.stats.response_error,
      d_exception |-> r.stats.response_exception - s.stats.response_exception,
      closes |-> SubSeq(r.closes, Len(s.closes) + 1, Len(r.closes)),
      closed |-> r.conn_state = "Closed",
      crashed |-> r.crashed])]

SendLocalReplyNoEP(s, md, result, end_stream) ==
  IF s.crashed \/ s.conn_state = "Closed" THEN s
  ELSE LET s1 == [s EXCEPT !.wire = @ \cup {[to |-> "downstream", kind |-> "local_reply",
                                              ep |-> Encode(s.metadata[md])]},
                           !.writes = @ + 1]
           s2 == IF end_stream THEN Close(s1, "FlushWrite") ELSE s1
       IN [s2 EXCEPT !.stats = Inc(@, CounterOf(result))]

WriteLocalReply(s, md, result, end_stream) ==
  LET s0 == [s EXCEPT !.metadata[md] = SetEP(@, GetLocalIp)]
      s1 == [s0 EXCEPT !.wire = @ \cup {[to |-> "downstream", kind |-> "local_reply",
                                          ep |-> Encode(s0.metadata[md])]},
                       !.writes = @ + 1]
      s2 == IF end_stream THEN Close(s1, "FlushWrite") ELSE s1
  IN [s2 EXCEPT !.stats = Inc(@, CounterOf(result))]

SendLocalReply(s, md, result, end_stream) ==
  IF s.crashed THEN s
  ELSE LogLocalReply(s, IF s.conn_state = "Closed" THEN s
                        ELSE WriteLocalReply(s, md, result, end_stream),
                     result, end_stream)

SetLocalResponseSentNever(s, o, end_stream) == s
SetLocalResponseSent(s, o, end_stream) ==
  IF end_stream THEN s
  ELSE [s EXCEPT !.objs[o].local_response_sent = TRUE, !.objs[o].ever_sent = TRUE]

\* *metadata_ with metadata_ null ends the worker.
\* an entry of walks: a filter invoked, a local reply sent by the transaction,
\* or a stage returning
WalkEntry(kind, o, md, stage, entry, after, end_stream, status, sent) ==
  [kind |-> kind, trans |-> o, md |-> md, stage |-> stage, entry |-> entry,
   after |-> after, end_stream |-> end_stream, status |-> status, sent |-> sent]

LogReply(s, o, end_stream) ==
  [s EXCEPT !.walks = Append(@,
     WalkEntry("reply", o, s.objs[o].metadata, 0, 0, 0, end_stream, "",
               s.objs[o].local_response_sent))]

ActiveTransSendLocalReply(s, o, result, end_stream) ==
  IF s.crashed THEN s
  ELSE IF s.objs[o].metadata = NullMd THEN [s EXCEPT !.crashed = TRUE]
  ELSE LogReply(SetLocalResponseSent(
                  SendLocalReply(s, s.objs[o].metadata, result, end_stream),
                  o, end_stream),
                o, end_stream)

\* s is the state onError was called in, r the state it left
LogError(s, r, o) ==
  [r EXCEPT !.error_calls = Append(@,
     [trans |-> o, had_metadata |-> s.objs[o].metadata # NullMd,
      was_closed |-> s.conn_state = "Closed",
      replies |-> r.stats.response_exception - s.stats.response_exception,
      wire_same |-> r.wire = s.wire,
      reply_on_wire |-> [to |-> "downstream", kind |-> "local_reply",
                         ep |-> LocalIp] \in r.wire,
      closes |-> r.closes,
      indexed |-> \E p \in r.transactions : p[2] = o,
      deferred |-> o \in r.deferred,
      crashed |-> r.crashed])]

OnErrorNeverCloses(s, o) ==
  IF s.crashed THEN s
  ELSE LogError(s, IF s.objs[o].metadata # NullMd
                   THEN ActiveTransSendLocalReply(s, o, AppExceptionEncode, FALSE)
                   ELSE DoDeferredTransDestroy(s, o), o)
OnError(s, o) ==
  IF s.crashed THEN s
  ELSE LogError(s, IF s.objs[o].metadata # NullMd
                   THEN ActiveTransSendLocalReply(s, o, AppExceptionEncode, TRUE)
                   ELSE Close(DoDeferredTransDestroy(s, o), "NoFlush"), o)

\* --------------------------------------------------------------- the registry
NewTransactionInfoItem(active_trans, upstream_request, at) ==
  [active_trans |-> active_trans, upstream_request |-> upstream_request,
   deleted |-> FALSE, inserted_at |-> at, audit_resets |-> 0]

\* s is the state insertTransaction was called in, r the state it left
LogInsert(s, r, transaction_id, active_trans, upstream_request) ==
  [r EXCEPT !.inserts = Append(@,
     [tid |-> transaction_id, trans |-> active_trans, req |-> upstream_request,
      was_there |-> Has(s.transaction_info_map, transaction_id),
      was_deleted |-> Has(s.transaction_info_map, transaction_id)
                      /\ At(s.transaction_info_map, transaction_id).deleted,
      yields |-> At(r.transaction_info_map, transaction_id)])]

InsertTransaction(s, transaction_id, active_trans, upstream_request) ==
  LogInsert(s,
            [s EXCEPT !.transaction_info_map =
               Emplace(@, transaction_id,
                       NewTransactionInfoItem(active_trans, upstream_request, s.now))],
            transaction_id, active_trans, upstream_request)

\* toDelete() on the item of the id
DeleteTransaction(s, transaction_id) ==
  [s EXCEPT !.transaction_info_map =
     Replace(@, transaction_id,
             [At(s.transaction_info_map, transaction_id) EXCEPT !.deleted = TRUE])]

GetTransaction(s, transaction_id) == At(s.transaction_info_map, transaction_id)

\* --------------------------------------------------------------------- Router
ShouldSelectAnotherHost(host, destination) ==
  IF destination # "" THEN FALSE ELSE host # destination

\* The cluster's load balancer, asked for a host with the router as its context:
\* it offers LbPick first and walks on while the context rejects the host; it
\* ends on a host the context accepts or on none.
Accepted(destination) == {h \in Hosts : ~ShouldSelectAnotherHost(h, destination)}

ChooseHost(s, destination) ==
  IF LbPick \in Accepted(destination) THEN LbPick
  ELSE IF Accepted(destination) # {} THEN CHOOSE h \in Accepted(destination) : TRUE
  ELSE NoHost

Asked(s, destination) ==
  IF LbPick \in Accepted(destination) THEN {LbPick} ELSE Hosts

\* An UpstreamRequest writes a request: EP is set to the local IP, the message is
\* encoded and written to the host.
WriteUpstream(s, md, host) ==
  LET s0 == [s EXCEPT !.metadata[md] = SetEP(@, GetLocalIp)] IN
  [s0 EXCEPT !.wire = @ \cup {[to |-> "upstream", kind |-> "request",
                               ep |-> Encode(s0.metadata[md])]},
             !.upstream_log[host] =
               Append(@, [md |-> md, tid |-> s0.metadata[md].tid,
                          conn |-> s0.metadata[md].conn,
                          queried |-> s0.metadata[md].queried,
                          waited |-> s0.metadata[md].waited])]

RECURSIVE WriteAll(_, _, _)
WriteAll(s, mds, host) ==
  IF mds = <<>> THEN s ELSE WriteAll(WriteUpstream(s, Head(mds), host), Tail(mds), host)

Forward(s, md, host) ==
  LET ur == s.upstream_request_map[host] IN
  CASE ur.conn_state = "NotConnected" ->
         [s EXCEPT !.upstream_request_map[host] =
                     [conn_state |-> "Connecting", pending_request |-> <<md>>]]
    [] ur.conn_state = "Connecting" ->
         [s EXCEPT !.upstream_request_map[host].pending_request = Append(@, md)]
    [] OTHER -> WriteUpstream(s, md, host)

MessageHandlerWithLoadbalancer(s, o, md) ==
  LET destination == s.metadata[md].destination
      host == ChooseHost(s, destination)
      s1 == [s EXCEPT
               !.verdicts = @ \cup
                  {[destination |-> destination, host |-> h,
                    reject |-> ShouldSelectAnotherHost(h, destination)]
                     : h \in Asked(s, destination)},
               !.selections = @ \cup {[destination |-> destination, host |-> host]}]
  IN IF host = NoHost
     THEN [s |-> ActiveTransSendLocalReply(
                   [s1 EXCEPT !.stats = Inc(@, "no_healthy_upstream")],
                   o, AppExceptionEncode, FALSE),
           status |-> "StopIteration"]
     ELSE [s |-> InsertTransaction(Forward(s1, md, host), s.metadata[md].tid, o, host),
           status |-> "Continue"]

HandleAffinity(s, o, md) ==
  LET m == s.metadata[md] IN
  CASE m.destination # "" -> [s |-> s, status |-> "Continue"]
    [] m.destination = "" /\ m.key = NoKey -> [s |-> s, status |-> "Continue"]
    [] m.destination = "" /\ m.key # NoKey /\ Has(s.p_cookie_ip_map, m.key) ->
         [s |-> [s EXCEPT !.metadata[md] =
                    SetDestination(@, At(s.p_cookie_ip_map, m.key))],
          status |-> "Continue"]
    [] m.destination = "" /\ m.key # NoKey /\ ~Has(s.p_cookie_ip_map, m.key)
         /\ m.key \in s.tra_outstanding ->
         [s |-> s, status |-> "StopIteration"]
    [] m.destination = "" /\ m.key # NoKey /\ ~Has(s.p_cookie_ip_map, m.key)
         /\ m.key \notin s.tra_outstanding /\ m.queried ->
         [s |-> s, status |-> "Continue"]
    [] OTHER ->
         [s |-> [s EXCEPT !.tra_outstanding = @ \cup {m.key},
                          !.metadata[md].queried = TRUE],
          status |-> "StopIteration"]

RouterStage(s, o, md, stage) ==
  CASE stage \in {1, 2} -> HandleAffinity(s, o, md)
    [] stage = 3 -> MessageHandlerWithLoadbalancer(s, o, md)
    [] OTHER -> [s |-> s, status |-> "Continue"]

\* the configured filter: at the stage it acts on it may send a local reply
\* through its callbacks, and it returns its status
CustomStage(s, o, md, stage) ==
  IF s.custom.stage # stage THEN [s |-> s, status |-> "Continue"]
  ELSE [s |-> IF s.custom.reply = "none" THEN s
              ELSE ActiveTransSendLocalReply(s, o, s.custom.result,
                                             s.custom.reply = "reply_end"),
        status |-> s.custom.status]

FilterStage(s, o, filter, md, stage) ==
  IF filter = "router" THEN RouterStage(s, o, md, stage)
  ELSE CustomStage(s, o, md, stage)

\* ------------------------------------------------ ActiveTrans, the filter chain
\* r is what the filter at entry returned
RECURSIVE WalkFilters(_, _, _, _, _)
AfterFilter(r, o, md, stage, entry) ==
  IF r.s.objs[o].local_response_sent THEN [s |-> r.s, status |-> "Continue"]
  ELSE IF r.status # "Continue" THEN [r EXCEPT !.s.stopped_at = entry]
  ELSE WalkFilters(r.s, o, md, stage, entry + 1)

\* the filter at position entry is about to be invoked for the stage; after is
\* the position of the filter that had stopped this very stage of this message
\* (0 when the stage is walked for the first time)
LogWalk(s, o, md, stage, entry) ==
  [s EXCEPT !.walks = Append(@,
     WalkEntry("invoke", o, md, stage, entry,
               IF s.dec.md = md /\ s.dec.stage = stage THEN s.stopped_at ELSE 0,
               FALSE, "", s.objs[o].local_response_sent))]

\* r is what applyDecoderFilters returns for the stage
LogReturn(r, o, md, stage) ==
  [r EXCEPT !.s.walks = Append(@,
     WalkEntry("return", o, md, stage, 0, 0, FALSE, r.status,
               r.s.objs[o].local_response_sent))]

WalkFilters(s, o, md, stage, entry) ==
  IF entry > Len(FilterChain) \/ s.crashed THEN [s |-> s, status |-> "Continue"]
  ELSE AfterFilter(FilterStage(LogWalk(s, o, md, stage, entry), o,
                               FilterChain[entry], md, stage),
                   o, md, stage, entry)

\* r is what applyDecoderFilters returns for a stage it did not walk
LogSkip(r, o, md, stage) ==
  [r EXCEPT !.s.walks = Append(@,
     WalkEntry("skip", o, md, stage, 0, 0, FALSE, r.status,
               r.s.objs[o].local_response_sent))]

\* filter = 0 is the null filter: the walk starts at decoder_filters_.begin()
ApplyDecoderFiltersAlways(s, o, md, stage, filter) ==
  LogReturn(WalkFilters(s, o, md, stage, IF filter = 0 THEN 1 ELSE filter + 1),
            o, md, stage)
ApplyDecoderFilters(s, o, md, stage, filter) ==
  IF ~s.objs[o].local_response_sent
  THEN LogReturn(WalkFilters(s, o, md, stage, IF filter = 0 THEN 1 ELSE filter + 1),
                 o, md, stage)
  ELSE LogSkip([s |-> s, status |-> "Continue"], o, md, stage)

\* what a stage of ActiveTrans does before it walks the filters: messageBegin
\* keeps the metadata, transportEnd counts the request
BeforeFilters(s, o, md, stage) ==
  CASE stage = 2 -> [s EXCEPT !.objs[o].metadata = md]
    [] stage = 4 -> [s EXCEPT !.stats = Inc(@, "request")]
    [] OTHER -> s

ActiveTransStage(s, o, md, stage) ==
  ApplyDecoderFilters(BeforeFilters(s, o, md, stage), o, md, stage, 0)

\* the test that lets an ACK take the ActiveTrans of the map
AckFindsNothing(s, md) == FALSE
AckFindsTransaction(s, md) ==
  s.metadata[md].method = "Ack" /\ Has(s.transactions, s.metadata[md].tid)

NewDecoderEventHandler(s, md) ==
  LET k == s.metadata[md].tid
      isAck == s.metadata[md].method = "Ack"
      had == IF Has(s.transactions, k) THEN At(s.transactions, k) ELSE 0
      n == Len(s.objs) + 1
      reuse == AckFindsTransaction(s, md)
      trs == IF reuse THEN s.transactions ELSE Emplace(s.transactions, k, n)
      ret == At(trs, k)
      \* a new ActiveTrans that emplace did not take dies with its unique_ptr
      os == IF reuse THEN s.objs
            ELSE Append(s.objs,
                        [NewActiveTrans(k, s.now) EXCEPT
                           !.conn = s.self,
                           !.st = IF <<k, n>> \in trs THEN "live" ELSE "destroyed"])
  IN [s |-> [s EXCEPT
               !.transactions = trs, !.objs = os, !.clean = FALSE,
               !.first_trans = IF isAck THEN @ ELSE Emplace(@, k, ret),
               !.ndeh_calls = Append(@,
                  [tid |-> k, method |-> s.metadata[md].method, had |-> had,
                   ret |-> ret, made |-> IF reuse THEN 0 ELSE n,
                   \* createFilterChain runs on every ActiveTrans constructed
                   chained |-> IF reuse THEN 0 ELSE n,
                   before |-> s.transactions, after |-> trs])],
      handler |-> ret]

\* -------------------------------------------------------------------- Decoder
\* r is what the handler's stage returned
RECURSIVE RunStages(_, _, _, _)
AfterStage(r, o, md, stage) ==
  IF r.status = "StopIteration"
  THEN [r.s EXCEPT !.dec = [md |-> md, stage |-> stage, handler |-> o]]
  ELSE RunStages(r.s, o, md, stage + 1)

RunStages(s, o, md, stage) ==
  IF s.crashed THEN s
  ELSE IF stage > Len(Stages)
  THEN [s EXCEPT !.dec = [md |-> md, stage |-> 0, handler |-> o], !.stopped_at = 0]
  ELSE IF Dangling(s, o) /\ s.ub = "crash" THEN [s EXCEPT !.crashed = TRUE]
  ELSE AfterStage(ActiveTransStage(s, o, md, stage), o, md, stage)

\* Decoder::onData: the message it is paused at is delivered on from the stage
\* that stopped it, then the complete messages of the buffer are, oldest first;
\* a stage that returns StopIteration pauses the decoder at its message.
RECURSIVE DecoderOnData(_)
\* r is the state after a message's stages: the decoder goes on to the next
\* message unless it paused (or the worker died)
AfterMessage(r) == IF r.crashed \/ r.dec.stage # 0 THEN r ELSE DecoderOnData(r)

\* h is what newDecoderEventHandler returned for the message md
Deliver(h, md) == RunStages(h.s, h.handler, md, 1)

DecoderOnData(s) ==
  IF s.crashed THEN s
  ELSE IF s.dec.stage # 0
  THEN AfterMessage(RunStages(s, s.dec.handler, s.dec.md, s.dec.stage))
  ELSE IF s.request_buffer = <<>> THEN s
  ELSE AfterMessage(
         Deliver(NewDecoderEventHandler([s EXCEPT !.request_buffer = Tail(@)],
                                        Head(s.request_buffer)),
                 Head(s.request_buffer)))

BufferMovePrepend(buffer, data) == data \o buffer
BufferMove(buffer, data) == buffer \o data

Dispatch(s) == DecoderOnData(s)
\* called by complete() alone; the response it is called for counts the call
\* the requests handed to upstream requests so far, written or pending
RECURSIVE Handed(_, _)
Handed(s, hs) ==
  IF hs = {} THEN 0
  ELSE LET h == CHOOSE x \in hs : TRUE IN
       Len(s.upstream_log[h]) + Len(s.upstream_request_map[h].pending_request)
       + Handed(s, hs \ {h})

\* s is the state continueHanding was called in, r the state it left
LogRedrive(s, r) ==
  [r EXCEPT !.tra_calls[Len(s.tra_calls)].redriven = @ + 1,
            !.tra_calls[Len(s.tra_calls)].forwarded = Handed(r, Hosts) - Handed(s, Hosts)]

ContinueHanding(s) == LogRedrive(s, DecoderOnData(s))

\* ConnectionManager::complete, for a response that carries the one pair k: v.
Lookup(map, k) == IF Has(map, k) THEN At(map, k) ELSE NoHost

\* s is the state when the response arrived, r the state after its loop
LogTra(s, r, type, k, v) ==
  [r EXCEPT !.tra_calls = Append(@,
     [type |-> type, key |-> k, host |-> v, md |-> s.dec.md,
      was_destination |-> IF s.dec.md = NullMd THEN NoHost
                          ELSE s.metadata[s.dec.md].destination,
      destination |-> IF r.dec.md = NullMd THEN NoHost
                      ELSE r.metadata[r.dec.md].destination,
      was_cached |-> s.p_cookie_ip_map, cached |-> r.p_cookie_ip_map,
      was_closed |-> s.conn_state = "Closed",
      was_indexed |-> s.dec.handler # 0
                      /\ \E p \in s.transactions : p[2] = s.dec.handler,
      was_destroyed |-> s.dec.handler # 0 /\ Dangling(s, s.dec.handler),
      redriven |-> 0, forwarded |-> 0])]

\* case RetrieveLskpmcResp: the loop over the response's items
RetrieveItem(s, k, v) ==
  IF v # ""
  THEN [s EXCEPT !.metadata[s.dec.md] = SetDestination(@, v),
                 !.p_cookie_ip_map = Emplace(@, k, v)]
  ELSE s

CompleteRetrieve(s, k, v) ==
  ContinueHanding(LogTra(s, RetrieveItem(s, k, v), "Retrieve", k, v))

\* case SubscribeLskpmcResp: every item is emplaced; the decoder is left alone
SubscribeItem(s, k, v) == [s EXCEPT !.p_cookie_ip_map = Emplace(@, k, v)]

CompleteSubscribe(s, k, v) == LogTra(s, SubscribeItem(s, k, v), "Subscribe", k, v)

\* A response as the upstream host sends it: the EP it carries is not the proxy's.
ResponseMetadata(tid) == [NewMetadata(tid, "Invite", NoKey) EXCEPT !.ep = ForeignEp]

\* ConnectionManager::ResponseDecoder::transportEnd; thrown = TRUE stands for the
\* EnvoyException it throws.
ResponseTransportEnd(s, rmd) ==
  IF s.conn_state = "Closed" THEN [s |-> s, thrown |-> TRUE]
  ELSE [s |-> [s EXCEPT !.wire = @ \cup {[to |-> "downstream", kind |-> "response",
                                           ep |-> Encode(SetEP(rmd, GetLocalIp))]},
                        !.writes = @ + 1,
                        !.stats = Inc(@, "response")],
        thrown |-> FALSE]

\* the item getTransaction returned for a response, and whether the response
\* went on to its ActiveTrans
LogLookup(s, tid, delivered) ==
  [s EXCEPT !.lookups = Append(@,
     [tid |-> tid, deleted |-> GetTransaction(s, tid).deleted,
      yields |-> GetTransaction(s, tid).active_trans, delivered |-> delivered])]

\* s is the state upstreamData was called in, r the state it left; an
\* exception that leaves upstreamData reports no status
LogResponse(s, r, o, status) ==
  [r EXCEPT !.response_calls = Append(@,
     [trans |-> o, was_closed |-> s.conn_state = "Closed",
      live |-> ~Dangling(s, o),
      conn |-> s.self, asked_on |-> s.answering,
      status |-> IF r.crashed THEN "" ELSE status,
      writes |-> r.writes - s.writes, wire_same |-> r.wire = s.wire,
      d_response |-> r.stats.response - s.stats.response,
      d_success |-> r.stats.response_success - s.stats.response_success,
      d_error |-> r.stats.response_error - s.stats.response_error,
      d_exception |-> r.stats.response_exception - s.stats.response_exception,
      crashed |-> r.crashed])]

UpstreamData(s, o, rmd) ==
  LET r == ResponseTransportEnd(s, rmd) IN
  IF r.thrown THEN [s |-> LogResponse(s, OnError(s, o), o, "Reset"),
                    status |-> "Reset"]
  ELSE [s |-> LogResponse(s, r.s, o, "Complete"), status |-> "Complete"]

\* ------------------------------------------------- ThreadLocalTransactionInfo
AuditTimedOutAlways(diff) == diff >= 0
AuditTimedOut(diff) == diff >= TransactionTimeout

\* the sweep has called resetTrans() on the item of transaction_id
MarkAuditReset(s, transaction_id) ==
  IF s.crashed THEN s
  ELSE IF ~Has(s.transaction_info_map, transaction_id)
  THEN [s EXCEPT !.reset_ids = @ \cup {transaction_id}]
  ELSE [s EXCEPT
          !.reset_ids = @ \cup {transaction_id},
          !.transaction_info_map =
             Replace(@, transaction_id,
                     [At(s.transaction_info_map, transaction_id)
                        EXCEPT !.audit_resets = @ + 1])]

ResetTransAndErase(s, o, diff) ==
  [OnReset([s EXCEPT !.objs[o].audit_age = diff], o)
     EXCEPT !.transaction_info_map = Erase(@, s.objs[o].tid)]
ResetTrans(s, o, diff) == OnReset([s EXCEPT !.objs[o].audit_age = diff], o)

\* the items of the table as a sweep sees them
Items(s) ==
  {[tid |-> p[1], deleted |-> p[2].deleted, audit_resets |-> p[2].audit_resets]
     : p \in s.transaction_info_map}

\* s is the state the sweep started in, r the state it left
LogSweep(s, r) ==
  [r EXCEPT !.sweeps = Append(@,
     [before |-> Items(s), after |-> Items(r), reset |-> r.reset_ids,
      armed |-> r.audit_deadline = s.now + AuditPeriod,
      crashed |-> r.crashed])]

\* r is the state the loop of the sweep left: the timer is enabled after the
\* loop, which an exception thrown inside the loop never reaches
EnableAuditTimer(s, r) ==
  IF r.crashed THEN r ELSE [r EXCEPT !.audit_deadline = s.now + AuditPeriod]

AuditEachErasesAll(s, todo) == [s EXCEPT !.transaction_info_map = @ \ todo]
RECURSIVE AuditEach(_, _)
AuditEach(s, todo) ==
  IF todo = {} \/ s.crashed THEN s
  ELSE LET p == CHOOSE q \in todo : TRUE
           o == p[2].active_trans
           diff == s.now - s.objs[o].start
       IN IF p[2].deleted
          THEN AuditEach([s EXCEPT !.transaction_info_map = @ \ {p}], todo \ {p})
          ELSE IF Dangling(s, o) /\ s.ub = "crash" THEN [s EXCEPT !.crashed = TRUE]
          ELSE IF AuditTimedOut(diff)
          THEN AuditEach(MarkAuditReset(ResetTrans(s, o, diff), p[1]), todo \ {p})
          ELSE AuditEach(s, todo \ {p})

AuditSweepNeverErases(s) ==
  LogSweep(s, EnableAuditTimer(s,
                AuditEach(s, {p \in s.transaction_info_map : ~p[2].deleted})))
AuditSweep(s) ==
  LogSweep(s, EnableAuditTimer(s, AuditEach(s, s.transaction_info_map)))

\* ------------------------------------------------------------------ Dispatcher
\* The deferred-delete list is cleared: each ActiveTrans is destroyed, and its
\* router, destroyed with it, marks the transaction's TransactionInfoItem deleted.
RECURSIVE DestroyEach(_, _)
DestroyEach(s, todo) ==
  IF todo = {} THEN s
  ELSE LET o == CHOOSE q \in todo : TRUE
           s1 == [s EXCEPT !.objs[o].st = "destroyed", !.objs[o].metadata = NullMd]
           s2 == IF Has(s1.transaction_info_map, s1.objs[o].tid)
                 THEN DeleteTransaction(s1, s1.objs[o].tid) ELSE s1
       IN DestroyEach(s2, todo \ {o})

ClearDeferredDeleteList(s) == [DestroyEach(s, s.deferred) EXCEPT !.deferred = {}]

\* Metadata no reference holds any more is freed.
Referenced(s) ==
  {s.request_buffer[i] : i \in DOMAIN s.request_buffer}
    \cup {s.dec.md}
    \cup {s.other.request_buffer[i] : i \in DOMAIN s.other.request_buffer}
    \cup {s.other.dec.md}
    \cup {s.objs[o].metadata : o \in DOMAIN s.objs}
    \cup UNION {{s.upstream_request_map[h].pending_request[i]
                   : i \in DOMAIN s.upstream_request_map[h].pending_request}
                : h \in Hosts}

\* A destroyed ActiveTrans that neither the decoder nor a TransactionInfoItem
\* points to any more is out of the program's reach.
Reachable(s) ==
  {o \in DOMAIN s.objs : s.objs[o].st # "destroyed"}
    \cup {s.dec.handler, s.other.dec.handler}
    \cup {p[2].active_trans : p \in s.transaction_info_map}

GoneTrans == [NewActiveTrans("", 0) EXCEPT !.st = "destroyed"]

\* The requests still on their way to an upstream host; for the others the note
\* that they waited in the buffer has served.
Underway(s) ==
  {s.request_buffer[i] : i \in DOMAIN s.request_buffer}
    \cup (IF s.dec.stage # 0 THEN {s.dec.md} ELSE {})
    \cup {s.other.request_buffer[i] : i \in DOMAIN s.other.request_buffer}
    \cup (IF s.other.dec.stage # 0 THEN {s.other.dec.md} ELSE {})
    \cup UNION {{s.upstream_request_map[h].pending_request[i]
                   : i \in DOMAIN s.upstream_request_map[h].pending_request}
                : h \in Hosts}

Collect(s) ==
  [s EXCEPT
     !.metadata =
       [i \in DOMAIN s.metadata |->
          IF i \notin Referenced(s) THEN FreeMd
          ELSE IF i \in Underway(s) THEN s.metadata[i]
          ELSE [s.metadata[i] EXCEPT !.waited = FALSE]],
     !.objs =
       [o \in DOMAIN s.objs |-> IF o \in Reachable(s) THEN s.objs[o] ELSE GoneTrans]]

\* Only differences of times matter to the program, so times are kept relative
\* to the oldest timestamp the program still holds (or to the clock, if none).
Min(S) == CHOOSE x \in S : \A y \in S : x <= y

TimeBase(s) ==
  Min({s.now} \cup {s.objs[o].start : o \in {q \in DOMAIN s.objs : s.objs[q] # GoneTrans}}
              \cup {p[2].inserted_at : p \in s.transaction_info_map})

Rebase(s) ==
  LET b == TimeBase(s) IN
  [s EXCEPT
     !.now = @ - b,
     !.audit_deadline = @ - b,
     !.objs = [o \in DOMAIN s.objs |->
                 IF s.objs[o] = GoneTrans THEN GoneTrans
                 ELSE [s.objs[o] EXCEPT !.start = @ - b]],
     !.transaction_info_map =
       {<<p[1], [p[2] EXCEPT !.inserted_at = @ - b]>> : p \in s.transaction_info_map}]

Release(s) == Rebase(Collect(s))

\* -------------------------------------------------------------------- actions
\* The fields of one ConnectionManager; everything else belongs to the worker
\* (the thread-local tables, the dispatcher) or to the listener (the stats).
ConnFields ==
  {"conn_state", "connected_seen", "request_buffer", "dec", "transactions",
   "p_cookie_ip_map", "tra_outstanding", "stopped_at", "clean", "first_trans"}
NewConnection ==
  [conn_state |-> "Open", connected_seen |-> FALSE, request_buffer |-> <<>>,
   dec |-> [md |-> NullMd, stage |-> 0, handler |-> 0], transactions |-> {},
   p_cookie_ip_map |-> {}, tra_outstanding |-> {}, stopped_at |-> 0,
   clean |-> FALSE, first_trans |-> {}]
ConnOf(s) == [f \in ConnFields |-> s[f]]
\* the state a handler of connection id runs in: the worker's state with the
\* fields c of that connection's manager
WithConn(s, c, id) ==
  [f \in DOMAIN s |-> IF f \in ConnFields THEN c[f]
                      ELSE IF f = "self" THEN id
                      ELSE IF f = "other" THEN ConnOf(s) ELSE s[f]]
\* r is the state a handler of the second connection left
CommitPeer(r) ==
  /\ CommitProxy(WithConn(r, r.other, 1))
  /\ header' = header
  /\ peer' = ConnOf(r)
  /\ manager' = manager

\* tra_client_ when the constructor made no client
NoClient == "null"

\* ConnectionManager::ConnectionManager: a TRA client is made only when the
\* settings have a gRPC service
Construct(has_grpc_service) ==
  [has_grpc_service |-> has_grpc_service,
   tra_client |-> IF has_grpc_service THEN "client" ELSE NoClient,
   phase |-> "constructed",
   tra_uses |-> <<>>,
   died |-> FALSE]

\* tra_client_->call(...): the call goes through the pointer whatever it holds;
\* through a null pointer it is undefined, and the worker dies there or goes on
TraCall(m, call, ub) ==
  IF m.died THEN m
  ELSE [m EXCEPT !.tra_uses = Append(@, [call |-> call, on |-> m.tra_client]),
                 !.died = m.tra_client = NoClient /\ ub = "crash"]

Initialized(m) == IF m.died THEN m ELSE [m EXCEPT !.phase = "initialized"]
Destroyed(m) == IF m.died THEN m ELSE [m EXCEPT !.phase = "destroyed"]

\* ConnectionManager::initializeReadFilterCallbacks
InitializeReadFilterCallbacksOf(m, ub) ==
  Initialized(TraCall(TraCall(m, "setRequestCallbacks", ub), "subscribeLskpmc", ub))

\* ConnectionManager::~ConnectionManager
Destructor(m, ub) == Destroyed(TraCall(m, "closeStream", ub))

\* the connection manager and the worker's tables as they are constructed
Constructed ==
  /\ conn_state = "Open"
  /\ connected_seen = FALSE
  /\ request_buffer = <<>>
  /\ metadata = <<>>
  /\ dec = [md |-> NullMd, stage |-> 0, handler |-> 0]
  /\ transactions = {}
  /\ objs = <<>>
  /\ stats = [cx_destroy_local_with_active_rq |-> 0,
              cx_destroy_remote_with_active_rq |-> 0,
              request |-> 0, response |-> 0, response_success |-> 0,
              response_error |-> 0, response_exception |-> 0,
              no_healthy_upstream |-> 0]
  /\ wire = {}
  /\ upstream_log = [h \in Hosts |-> <<>>]
  /\ transaction_info_map = {}
  /\ upstream_request_map =
       [h \in Hosts |-> [conn_state |-> "NotConnected", pending_request |-> <<>>]]
  /\ p_cookie_ip_map = {}
  /\ tra_outstanding = {}
  /\ now = 0
  /\ audit_deadline = AuditPeriod
  /\ deferred = {}
  /\ crashed = FALSE
  /\ nresp = 0
  /\ ndeh_calls = <<>>
  /\ reset_calls = <<>>
  /\ tra_calls = <<>>
  /\ lookups = <<>>
  /\ error_calls = <<>>
  /\ walks = <<>>
  /\ stopped_at = 0
  /\ sweeps = <<>>
  /\ reply_calls = <<>>
  /\ response_calls = <<>>
  /\ inserts = <<>>
  /\ clean = FALSE
  /\ first_trans = {}
  /\ verdicts = {}
  /\ selections = {}

\* a manager with a TRA service, installed as the connection's read filter
InService == InitializeReadFilterCallbacksOf(Construct(TRUE), "intact")

Init == Constructed /\ header = NoHeader /\ peer = NewConnection /\ manager = InService

\* a manager just constructed, with or without a TRA service in its settings
InitLifecycle ==
  /\ Constructed /\ header = NoHeader /\ peer = NewConnection
  /\ manager \in {Construct(g) : g \in BOOLEAN}

\* a MessageMetadata whose transaction-id is unset or set by an earlier header,
\* and a header value about to be given to setTransactionId
InitHeader ==
  /\ Constructed /\ peer = NewConnection /\ manager = InService
  /\ header \in {[data |-> d, before |-> b, transaction_id |-> b, done |-> FALSE] :
                   d \in HeaderValues, b \in {{}, {<<"o", "l", "d">>}}}

\* ConnectionManager::onData; data holds the requests the bytes make up (the
\* decoder finds them complete in the buffer), numbered in order of arrival
RECURSIVE MarkWaited(_, _)
MarkWaited(s, mds) ==
  IF mds = <<>> THEN s
  ELSE MarkWaited([s EXCEPT !.metadata[Head(mds)].waited = TRUE], Tail(mds))

MarkAllWaited(s) == MarkWaited(s, s.request_buffer)

\* request_buffer_.move(data)
Arrive(s, data) ==
  [s EXCEPT !.metadata = @ \o data,
            !.request_buffer =
               BufferMove(@, [i \in 1..Len(data) |-> Len(s.metadata) + i])]

\* if (end_stream) { resetAllTrans(false); connection().close(FlushWrite); }
EndStreamLocalReset(s, end_stream) ==
  IF end_stream THEN Close(ResetAllTrans(s, TRUE, "half-close"), "FlushWrite") ELSE s
EndStream(s, end_stream) ==
  IF end_stream THEN Close(ResetAllTrans(s, FALSE, "half-close"), "FlushWrite") ELSE s

\* behaviour is what the configured filter does with the requests of data
OnDataWith(data, end_stream, ub, behaviour) ==
  /\ ~crashed /\ conn_state = "Open"
  /\ Commit(Release(MarkAllWaited(
        EndStream(Dispatch(Arrive([Cur(ub) EXCEPT !.custom = behaviour], data)),
                  end_stream))))

OnData(data, end_stream, ub) == OnDataWith(data, end_stream, ub, Quiet)

\* ConnectionManager::onEvent, raised by the connection
OnEvent(event) ==
  /\ ~crashed /\ conn_state = "Open"
  /\ event = "Connected" => ~connected_seen
  /\ LET s0 == Cur("intact")
         s1 == IF event = "Connected"
               THEN [s0 EXCEPT !.connected_seen = TRUE]
               ELSE [s0 EXCEPT !.conn_state = "Closed"]
     IN Commit(Release(OnEventF(s1, event)))

\* ConnectionManager::complete(RetrieveLskpmcResp, {k: v})
TraRetrieveResponse(k, v, ub) ==
  /\ ~crashed /\ k \in tra_outstanding
  /\ Commit(Release(CompleteRetrieve(
                      [Cur(ub) EXCEPT !.tra_outstanding = @ \ {k}], k, v)))

\* ConnectionManager::complete(SubscribeLskpmcResp, {k: v}): the subscription
\* stream delivers an update
TraSubscribeResponse(k, v) ==
  /\ ~crashed
  /\ Commit(Release(CompleteSubscribe(Cur("intact"), k, v)))

\* An error is reported to the live transaction o through its onError callback
\* (a failure of the decoder or of a filter while o is in the transactions map)
TransError(o) ==
  /\ ~crashed /\ \E p \in transactions : p[2] = o
  /\ Commit(Release(OnError(Cur("intact"), o)))

\* UpstreamRequest::onPoolReady
OnPoolReady(h) ==
  /\ ~crashed /\ upstream_request_map[h].conn_state = "Connecting"
  /\ LET s0 == Cur("intact")
         s1 == WriteAll(s0, s0.upstream_request_map[h].pending_request, h)
     IN Commit(Release([s1 EXCEPT !.upstream_request_map[h] =
                          [conn_state |-> "Connected", pending_request |-> <<>>]]))

\* UpstreamRequest::onUpstreamData with one response to a request the host got
UpstreamResponse(h, tid, ub) ==
  /\ ~crashed /\ nresp < MaxResp
  /\ upstream_request_map[h].conn_state = "Connected"
  /\ \E i \in DOMAIN upstream_log[h] : upstream_log[h][i].tid = tid
  /\ LET s0 == [Cur(ub) EXCEPT !.nresp = @ + 1] IN
     IF ~Has(s0.transaction_info_map, tid) THEN Commit(s0)
     ELSE LET o == GetTransaction(s0, tid).active_trans
              s1 == LogLookup(s0, tid, ~(Dangling(s0, o) /\ ub = "crash"))
          IN
          IF Dangling(s0, o) /\ ub = "crash" THEN Commit([s1 EXCEPT !.crashed = TRUE])
          ELSE Commit(Release(UpstreamData(s1, o, ResponseMetadata(tid)).s))

\* ConnectionManager::onData of the second downstream connection
PeerOnData(data, ub) ==
  /\ ~crashed /\ peer.conn_state = "Open"
  /\ CommitPeer(Release(MarkAllWaited(EndStream(
                  Dispatch(Arrive(WithConn(Cur(ub), peer, 2), data)), FALSE))))

\* ConnectionManager::complete(RetrieveLskpmcResp, {k: v}) of the second connection
PeerTraRetrieveResponse(k, v, ub) ==
  /\ ~crashed /\ k \in peer.tra_outstanding
  /\ CommitPeer(Release(CompleteRetrieve(
                  [WithConn(Cur(ub), peer, 2) EXCEPT !.tra_outstanding = @ \ {k}],
                  k, v)))

\* UpstreamRequest::onUpstreamData with the response to the i-th request that
\* host h was sent; the ActiveTrans the table yields belongs to either connection
RespondTo(s, o, tid) ==
  IF Dangling(s, o) /\ s.ub = "crash"
  THEN Commit([LogLookup(s, tid, FALSE) EXCEPT !.crashed = TRUE])
  ELSE IF s.objs[o].conn = 1
  THEN Commit(Release(UpstreamData(LogLookup(s, tid, TRUE), o,
                                   ResponseMetadata(tid)).s))
  ELSE CommitPeer(Release(UpstreamData(WithConn(LogLookup(s, tid, TRUE), peer, 2), o,
                                       ResponseMetadata(tid)).s))

UpstreamResponseTo(h, i, ub) ==
  /\ ~crashed /\ nresp < MaxResp
  /\ upstream_request_map[h].conn_state = "Connected"
  /\ i \in DOMAIN upstream_log[h]
  /\ LET s0 == [Cur(ub) EXCEPT !.nresp = @ + 1,
                               !.answering = upstream_log[h][i].conn]
         tid == upstream_log[h][i].tid
     IN IF ~Has(s0.transaction_info_map, tid) THEN Commit(s0)
        ELSE RespondTo(s0, GetTransaction(s0, tid).active_trans, tid)

\* MessageMetadata::setTransactionId(header.data)
SetTransactionIdCall ==
  /\ ~header.done
  /\ header' = [header EXCEPT
                  !.transaction_id = SetTransactionId(header.transaction_id, header.data),
                  !.done = TRUE]
  /\ UNCHANGED <<proxy_vars, peer, manager>>

\* the outcomes of a call through tra_client_
ClientOutcomes == IF manager.tra_client = NoClient THEN UB ELSE {"intact"}

\* a step of the manager's own lifecycle: the worker dies with it if it died
LifecycleStep(m) ==
  /\ manager' = m
  /\ header' = header /\ peer' = peer
  /\ CommitProxy([Cur("intact") EXCEPT !.crashed = m.died])

\* the filter manager installs the read filter
InitializeReadFilterCallbacks ==
  \E ub \in ClientOutcomes :
    /\ ~crashed /\ manager.phase = "constructed"
    /\ LifecycleStep(InitializeReadFilterCallbacksOf(manager, ub))

\* the closed connection is destroyed, and its filters with it
DestroyManager ==
  \E ub \in ClientOutcomes :
    /\ ~crashed /\ manager.phase = "initialized" /\ conn_state = "Closed"
    /\ LifecycleStep(Destructor(manager, ub))

\* the read filter is installed and not yet destroyed; it has a TRA to ask
Installed == manager.phase = "initialized"
Serving == Installed /\ manager.tra_client # NoClient

\* the audit timer fires
\* the audit timer is due
AuditDue == ~crashed /\ now = audit_deadline

AuditTimerAction(ub) ==
  /\ AuditDue
  /\ \E t \in {Release(AuditSweep(Cur(ub)))} : Commit(t)

\* the dispatcher clears its deferred-delete list
DeletesPending == ~crashed /\ deferred # {}

RunDeferredDeletes ==
  /\ DeletesPending
  /\ \E t \in {Release(ClearDeferredDeleteList(Cur("intact")))} : Commit(t)

\* a second passes; timers fire on time and deferred deletion takes no time
Tick ==
  /\ ~crashed /\ now < MaxTime /\ now < audit_deadline /\ deferred = {}
  /\ \E t \in {Release([Cur("intact") EXCEPT !.now = @ + 1])} : Commit(t)

\* ------------------------------------------------------------- environments
\* A handler can only read freed memory if the decoder or a TransactionInfoItem
\* points to a destroyed ActiveTrans when it starts: no handler other than the
\* clearing of the deferred-delete list destroys one that is pointed to.
Hazard ==
  \/ dec.handler # 0 /\ objs[dec.handler].st = "destroyed"
  \/ \E p \in transaction_info_map : objs[p[2].active_trans].st = "destroyed"

Outcomes == IF Hazard THEN UB ELSE {"intact"}

Receive(max) ==
  \E m \in InMsgs, ub \in Outcomes : Len(metadata) < max /\ OnData(<<m>>, FALSE, ub)
\* a request that the configured filter acts on
Filtered ==
  \E m \in InMsgs, b \in FilterBehaviours, ub \in Outcomes :
    Len(metadata) < MaxReq /\ OnDataWith(<<m>>, FALSE, ub, b)
Replied ==
  \E m \in InMsgs, b \in ReplyBehaviours, ub \in Outcomes :
    Len(metadata) < MaxReq /\ OnDataWith(<<m>>, FALSE, ub, b)
\* a request on the second connection, and the TRA's answer to its lookup
PeerReceive ==
  \E m \in InMsgs, ub \in Outcomes :
    Len(metadata) < MaxReq /\ PeerOnData(<<[m EXCEPT !.conn = 2]>>, ub)
PeerRetrieved ==
  \E k \in Keys, v \in Hosts \cup {""}, ub \in Outcomes :
    PeerTraRetrieveResponse(k, v, ub)
ResponseTo ==
  \E h \in Hosts, i \in 1..MaxReq, ub \in Outcomes : UpstreamResponseTo(h, i, ub)
HalfClose == \E ub \in Outcomes : OnData(<<>>, TRUE, ub)
Event == \E ev \in {"Connected", "RemoteClose", "LocalClose"} : OnEvent(ev)
Closes == \E ev \in {"RemoteClose", "LocalClose"} : OnEvent(ev)
Retrieved ==
  \E k \in Keys, v \in Hosts \cup {""}, ub \in Outcomes : TraRetrieveResponse(k, v, ub)
Subscribed == \E k \in Keys, v \in Hosts : TraSubscribeResponse(k, v)
PoolReady == \E h \in Hosts : OnPoolReady(h)
Failed == \E o \in DOMAIN objs : TransError(o)
Response == \E h \in Hosts, tid \in TIDs, ub \in Outcomes : UpstreamResponse(h, tid, ub)
Audit == \E ub \in Outcomes : AuditTimerAction(ub)

\* One downstream connection and its upstream traffic, all within a second.
Next ==
  \/ Receive(MaxReq)
  \/ HalfClose
  \/ Event
  \/ Retrieved
  \/ PoolReady
  \/ Response
  \/ RunDeferredDeletes

Spec == Init /\ [][Next]_vars

\* Requests whose transactions stay in the table while the seconds pass and
\* the audit timer fires.
NextAudit ==
  \/ Receive(MaxReq)
  \/ Retrieved
  \/ Audit
  \/ RunDeferredDeletes
  \/ Tick

SpecAudit == Init /\ [][NextAudit]_vars

\* The audit environment with the steps the worker takes by itself (timers
\* firing, the clock, the deferred-delete list) happening whenever they can;
\* nothing obliges the downstream to send or the TRA to answer.
\* Weak fairness of the audit timer and of the deferred-delete list is written
\* with their guards, which are what ENABLED <<Audit>>_vars and
\* ENABLED <<RunDeferredDeletes>>_vars come to (each step changes the state).
SpecLive ==
  /\ Init /\ [][NextAudit]_vars
  /\ WF_vars(Tick)
  /\ (<>[]AuditDue => []<><<Audit>>_vars)
  /\ (<>[]DeletesPending => []<><<RunDeferredDeletes>>_vars)

\* Requests with affinity keys while the TRA answers lookups and streams
\* subscription updates.
NextAffinity ==
  \/ Receive(MaxReq)
  \/ Retrieved
  \/ Subscribed
  \/ PoolReady

SpecAffinity == Init /\ [][NextAffinity]_vars

\* Requests, some of which fail while their transaction is in flight.
NextError ==
  \/ Receive(MaxReq)
  \/ Retrieved
  \/ PoolReady
  \/ Failed
  \/ RunDeferredDeletes

SpecError == Init /\ [][NextError]_vars

\* Requests whose transactions can be reset from every origin: the downstream
\* connection closing, an error, and the audit timer as the seconds pass.
NextReset ==
  \/ Receive(MaxReq)
  \/ Retrieved
  \/ Closes
  \/ Failed
  \/ Audit
  \/ RunDeferredDeletes
  \/ Tick

SpecReset == Init /\ [][NextReset]_vars

\* Requests that a filter may answer with a local reply of any kind, while
\* responses come back and the downstream connection may close.
NextReply ==
  \/ Replied
  \/ Retrieved
  \/ PoolReady
  \/ Response
  \/ Closes
  \/ RunDeferredDeletes

SpecReply == Init /\ [][NextReply]_vars

\* Two downstream connections of one worker whose requests go to the same
\* cluster, and the responses to them.
NextPair ==
  \/ Receive(MaxReq)
  \/ PeerReceive
  \/ Retrieved
  \/ PeerRetrieved
  \/ PoolReady
  \/ ResponseTo

SpecPair == Init /\ [][NextPair]_vars

\* One connection manager from its construction to its destruction, with or
\* without a TRA service; requests are taken only while it is installed and has
\* a TRA client, since a request with an affinity key asks the TRA.
LifeReceive == Serving /\ Receive(MaxReq)
LifeRetrieved == Serving /\ Retrieved
LifePoolReady == Serving /\ PoolReady
LifeCloses == Installed /\ Closes
LifeDeferredDeletes == Installed /\ RunDeferredDeletes

NextLifecycle ==
  \/ InitializeReadFilterCallbacks
  \/ LifeReceive
  \/ LifeRetrieved
  \/ LifePoolReady
  \/ LifeCloses
  \/ LifeDeferredDeletes
  \/ DestroyManager

SpecLifecycle == InitLifecycle /\ [][NextLifecycle]_vars

\* One header value parsed into the transaction-id of one MessageMetadata.
NextHeader == SetTransactionIdCall

SpecHeader == InitHeader /\ [][NextHeader]_vars

\* Requests through a chain whose first filter replies or stops at will.
NextChain ==
  \/ Filtered
  \/ Retrieved
  \/ PoolReady
  \/ RunDeferredDeletes

SpecChain == Init /\ [][NextChain]_vars

\* A burst of requests on a connection that stays open, with affinity lookups
\* and the upstream connection pending.
NextOrder ==
  \/ Receive(MaxBurst)
  \/ Retrieved
  \/ PoolReady

SpecOrder == Init /\ [][NextOrder]_vars

\* ------------------------------------------------------- host selection
\* C1: with a non-empty destination D, shouldSelectAnotherHost answers true
\* for every host other than D and false for D, and host selection ends on D
\* or on no host.
C1_DestinationPinsHost ==
  /\ \A v \in verdicts :
       v.destination # "" => (v.reject <=> v.host # v.destination)
  /\ \A x \in selections :
       x.destination # "" => x.host \in {x.destination, NoHost}

\* C2: with an empty destination, shouldSelectAnotherHost answers false for
\* every host, so the load balancer's pick stands and the request is not
\* rejected.
C2_NoDestinationAcceptsPick ==
  /\ \A v \in verdicts : v.destination = "" => ~v.reject
  /\ \A x \in selections : x.destination = "" => x.host = LbPick

\* ------------------------------------------------ transactions of a connection
\* C3: an ACK whose transaction id is in the map gets the ActiveTrans of the
\* map and leaves the map as it is; an ACK whose id is not in the map gets a
\* new ActiveTrans, which is put into the map under the id.
C3_AckHandler ==
  \A i \in DOMAIN ndeh_calls :
    LET c == ndeh_calls[i] IN
    c.method = "Ack" =>
      IF c.had # 0
      THEN c.ret = c.had /\ c.made = 0 /\ c.after = c.before
      ELSE c.made # 0 /\ c.ret = c.made
           /\ c.after = c.before \cup {<<c.tid, c.made>>}

C3_AckReused ==
  \E i \in DOMAIN ndeh_calls :
    ndeh_calls[i].method = "Ack" /\ ndeh_calls[i].had # 0

\* C4 as stated: every non-ACK request of a transaction id is handled by the
\* ActiveTrans created for the first request of that id, and the map holds at
\* most one entry per id.
C4_AlwaysFirstHandler ==
  /\ \A i \in DOMAIN ndeh_calls :
       ndeh_calls[i].method # "Ack"
         => ndeh_calls[i].ret = At(first_trans, ndeh_calls[i].tid)
  /\ \A p, q \in transactions : p[1] = q[1] => p = q

\* C4, amended: a non-ACK request whose transaction id is in the map is
\* handled by the ActiveTrans of the map, the map is left as it is, and the map
\* holds at most one entry per id.
C4_HandlerWhileIndexed ==
  /\ \A i \in DOMAIN ndeh_calls :
       LET c == ndeh_calls[i] IN
       (c.method # "Ack" /\ c.had # 0) => (c.ret = c.had /\ c.after = c.before)
  /\ \A p, q \in transactions : p[1] = q[1] => p = q

C4_SecondRequestSeen ==
  \E i \in DOMAIN ndeh_calls :
    /\ ndeh_calls[i].method # "Ack"
    /\ ndeh_calls[i].had # 0
    /\ ndeh_calls[i].had = At(first_trans, ndeh_calls[i].tid)

\* -------------------------------------------------------- order of requests
\* C5: each upstream host is written the requests bound to it in the order
\* in which they arrived on the downstream connection, also when the first one
\* waited for a TRA Retrieve reply while the next ones arrived.
C5_WrittenInArrivalOrder ==
  \A h \in Hosts :
    \A i, j \in DOMAIN upstream_log[h] :
      i < j => upstream_log[h][i].md < upstream_log[h][j].md

C5_ThreeWrittenAfterWait ==
  \E h \in Hosts :
    /\ Len(upstream_log[h]) = 3
    /\ upstream_log[h][1].queried
    /\ upstream_log[h][2].waited
    /\ upstream_log[h][3].waited

\* ----------------------------------------------------------------- audit
\* C6: the audit sweep resets a transaction only when its age, the time of the
\* sweep minus the transaction's start time, is at least transaction_timeout.
C6_ResetOnlyWhenTimedOut ==
  \A o \in DOMAIN objs :
    objs[o].audit_age # -1 => objs[o].audit_age >= TransactionTimeout

C6_ResetByAudit ==
  \E o \in DOMAIN objs : objs[o].audit_age # -1 /\ objs[o].resets = 1

\* C7 as stated: a TransactionInfoItem inserted at T is erased no later than
\* T + transaction_timeout + 2 s.
C7_ErasedWithinOnePeriod ==
  \A p \in transaction_info_map :
    now <= p[2].inserted_at + TransactionTimeout + AuditPeriod

\* C7, amended: a TransactionInfoItem inserted at T is erased by a sweep
\* that runs before T + transaction_timeout + 4 s: the sweep that resets the
\* transaction erases nothing, the item goes with the sweep after it.
C7_ErasedWithinTwoPeriods ==
  \A p \in transaction_info_map :
    audit_deadline < p[2].inserted_at + TransactionTimeout + 2 * AuditPeriod

C7_ResetAndStillThere ==
  \E p \in transaction_info_map :
    /\ p[2].deleted
    /\ objs[p[2].active_trans].audit_age # -1
    /\ now > p[2].inserted_at + TransactionTimeout + AuditPeriod

\* -------------------------------------------------------------- resets
\* C8: a resetAllTrans that follows another one with no request decoded in
\* between finds no transaction: it resets none and leaves the cx_destroy
\* counters as they are.
C8_SecondResetIdle ==
  /\ \A i \in DOMAIN reset_calls :
       reset_calls[i].clean
         => /\ reset_calls[i].active = 0
            /\ reset_calls[i].d_local = 0
            /\ reset_calls[i].d_remote = 0
            /\ reset_calls[i].d_reset = 0
  /\ \A o \in DOMAIN objs : objs[o].resets <= 1

C8_ResetTwice ==
  /\ Len(reset_calls) = 2
  /\ reset_calls[1].active > 0 /\ reset_calls[1].d_reset = reset_calls[1].active
  /\ reset_calls[2].clean

\* C9: every message written to a peer (a request to an upstream host, a
\* local reply, a response to the downstream peer) is encoded with EP set to
\* the local IP.
C9_EpIsLocalIp == \A w \in wire : w.ep = LocalIp

C9_AllKindsWritten ==
  /\ \E w \in wire : w.kind = "request"
  /\ \E w \in wire : w.kind = "local_reply"
  /\ \E w \in wire : w.kind = "response"

\* C10: the Connected event resets no transaction and changes no cx_destroy
\* counter; the resetAllTrans of half-close and of every other event resets
\* every transaction of the map.
C10_ConnectedResetsNothing ==
  \A i \in DOMAIN reset_calls :
    IF reset_calls[i].cause = "Connected"
    THEN /\ reset_calls[i].d_local = 0
         /\ reset_calls[i].d_remote = 0
         /\ reset_calls[i].d_reset = 0
    ELSE /\ reset_calls[i].d_reset = reset_calls[i].active
         /\ reset_calls[i].left = 0

\* --------------------------------------------------------------- half-close
\* C11: on a downstream half-close with n transactions in the map,
\* cx_destroy_remote_with_active_rq grows by n and
\* cx_destroy_local_with_active_rq does not change, the local close that
\* follows included; every one of the n transactions is reset and the map is
\* left empty.
C11_HalfCloseCountsRemote ==
  (reset_calls # <<>> /\ reset_calls[1].cause = "half-close")
    => /\ reset_calls[1].d_remote = reset_calls[1].active
       /\ reset_calls[1].d_reset = reset_calls[1].active
       /\ reset_calls[1].left = 0
       /\ \A i \in DOMAIN reset_calls :
            /\ reset_calls[i].d_local = 0
            /\ i > 1 => reset_calls[i].d_remote = 0
       /\ transactions = {}

C11_HalfCloseWithTwo ==
  /\ Len(reset_calls) = 2
  /\ reset_calls[1].cause = "half-close" /\ reset_calls[1].active = 2
  /\ reset_calls[2].cause = "LocalClose"

C13_RetrieveSetsAndCaches ==
  \A i \in DOMAIN tra_calls :
    tra_calls[i].type = "Retrieve" =>
      /\ tra_calls[i].redriven = 1
      /\ tra_calls[i].host # ""
           => /\ tra_calls[i].destination = tra_calls[i].host
              /\ Lookup(tra_calls[i].cached, tra_calls[i].key) = tra_calls[i].host
      /\ tra_calls[i].host = ""
           => /\ tra_calls[i].destination = tra_calls[i].was_destination
              /\ tra_calls[i].cached = tra_calls[i].was_cached

\* C14: after a SubscribeResponse a lookup of each key it carries yields the
\* host it carries, also when the key was mapped to another host before; the
\* other keys' entries are as they were and the decoder is not re-driven.
C14_SubscribeOverwrites ==
  \A i \in DOMAIN tra_calls :
    tra_calls[i].type = "Subscribe" =>
      /\ Lookup(tra_calls[i].cached, tra_calls[i].key) = tra_calls[i].host
      /\ \A k \in Keys \ {tra_calls[i].key} :
           Lookup(tra_calls[i].cached, k) = Lookup(tra_calls[i].was_cached, k)
      /\ tra_calls[i].redriven = 0

\* -------------------------------------------------------------- tombstones
\* C15: a lookup of a transaction-id whose item is marked deleted yields no
\* ActiveTrans, as a lookup of an absent id does, and no upstream response is
\* handed to an ActiveTrans through such an item.
C15_TombstonedLookupYieldsNothing ==
  \A i \in DOMAIN lookups :
    lookups[i].deleted => lookups[i].yields = 0 /\ ~lookups[i].delivered

\* ------------------------------------------------------------------ onError
\* C16: onError on a transaction that has metadata sends one ProtocolError
\* local reply and closes the connection with FlushWrite; on one that has none
\* it writes nothing, takes the transaction out of the transactions map and
\* into the deferred-delete list, and closes the connection with NoFlush.
C16_OnErrorRepliesOrDrops ==
  \A i \in DOMAIN error_calls :
    LET c == error_calls[i] IN
    ~c.crashed =>
      /\ c.had_metadata
           => /\ c.replies = 1
              /\ c.reply_on_wire
              /\ c.closes = <<"FlushWrite">>
      /\ ~c.had_metadata
           => /\ c.replies = 0 /\ c.wire_same
              /\ ~c.indexed /\ c.deferred
              /\ c.closes = <<"NoFlush">>

\* C16, as the code has it: the reply is written and the connection closed with
\* FlushWrite when the connection is still open; on a connection that is closed
\* already, onError on a transaction with metadata writes nothing and calls no
\* close. Without metadata it is as stated.
C16_OnErrorRepliesWhileOpen ==
  \A i \in DOMAIN error_calls :
    LET c == error_calls[i] IN
    ~c.crashed =>
      /\ (c.had_metadata /\ ~c.was_closed)
           => /\ c.replies = 1
              /\ c.reply_on_wire
              /\ c.closes = <<"FlushWrite">>
              /\ conn_state = "Closed"
      /\ (c.had_metadata /\ c.was_closed)
           => c.replies = 0 /\ c.wire_same /\ c.closes = <<>>
      /\ ~c.had_metadata
           => /\ c.replies = 0 /\ c.wire_same
              /\ ~c.indexed /\ c.deferred
              /\ c.closes = <<"NoFlush">>
              /\ conn_state = "Closed"

C16_ErrorWithMetadataWhileOpen ==
  \E i \in DOMAIN error_calls :
    /\ error_calls[i].had_metadata /\ ~error_calls[i].was_closed
    /\ error_calls[i].closes = <<"FlushWrite">>

\* ------------------------------------------------------------ filter chain
\* C17: when the filter at position i stopped a stage and the message is
\* resumed, the walk of that stage goes on with the filter at position i + 1:
\* no filter at a position up to i is invoked for that stage again. The
\* resumptions looked at are those of continueHanding, for a TRA response.
C17_ResumesAfterStopper ==
  tra_calls # <<>> =>
    \A k \in DOMAIN walks :
      (walks[k].kind = "invoke" /\ walks[k].after # 0)
        => walks[k].entry > walks[k].after

\* the entry of walks at which the stage returns that a reply at k was sent in
\* (0 when the reply was sent outside a walk)
ReturnAfter(k) ==
  IF \E r \in DOMAIN walks : r > k /\ walks[r].kind = "return"
  THEN CHOOSE r \in DOMAIN walks :
         /\ r > k /\ walks[r].kind = "return"
         /\ \A j \in DOMAIN walks : (j > k /\ j < r) => walks[j].kind # "return"
  ELSE 0

\* what the claim says of the stage in which the reply at entry k was sent
StageEndsOnReply(k) ==
  ReturnAfter(k) # 0 =>
    /\ walks[k].sent
    /\ walks[ReturnAfter(k)].status = "Continue"
    /\ \A j \in DOMAIN walks :
         (j > k /\ j < ReturnAfter(k)) => walks[j].kind # "invoke"

Tids(items) == {it.tid : it \in items}

\* C19: an item that a sweep calls resetTrans() on is still in the table when
\* that sweep ends; an item that an earlier sweep has reset is marked deleted
\* when the next sweep starts, and that sweep erases it and does not reset it.
C19_ResetThenErasedNextSweep ==
  \A i \in DOMAIN sweeps :
    ~sweeps[i].crashed =>
      /\ sweeps[i].reset \subseteq Tids(sweeps[i].after)
      /\ \A b \in sweeps[i].before :
           b.audit_resets > 0
             => /\ b.deleted
                /\ b.tid \notin Tids(sweeps[i].after)
                /\ b.tid \notin sweeps[i].reset

C19_ErasedOneSweepAfterReset ==
  \E i \in DOMAIN sweeps :
    /\ ~sweeps[i].crashed
    /\ \E b \in sweeps[i].before :
         b.audit_resets = 1 /\ b.deleted /\ b.tid \notin Tids(sweeps[i].after)

\* C20: every item that is marked deleted when a sweep starts is out of the
\* table when the sweep ends, and every item the sweep found not marked
\* deleted is still in the table.
C20_SweepErasesExactlyTombstones ==
  \A i \in DOMAIN sweeps :
    ~sweeps[i].crashed =>
      \A b \in sweeps[i].before :
        b.deleted <=> b.tid \notin Tids(sweeps[i].after)

C20_SweepWithBothKinds ==
  \E i \in DOMAIN sweeps :
    /\ ~sweeps[i].crashed
    /\ \E b \in sweeps[i].before : b.deleted
    /\ \E b \in sweeps[i].before : ~b.deleted

\* ------------------------------------------------------- audit timer re-arm
\* C21: every audit sweep ends with the audit timer armed again for
\* AuditPeriod seconds, whatever happened during the sweep, so that the worker
\* is never left without a pending audit: after a sweep the worker runs on and
\* the timer is set AuditPeriod seconds ahead.
C21_SweepRearmsTimer ==
  \A i \in DOMAIN sweeps : sweeps[i].armed /\ ~sweeps[i].crashed

\* ------------------------------------------------------- sendLocalReply
\* C22: a call of sendLocalReply on a downstream connection that is not Closed
\* writes exactly one encoded response, increments exactly the one of
\* response_success, response_error and response_exception that matches the
\* response's encode result, and closes the connection with FlushWrite exactly
\* when end_stream is true; on a Closed connection it writes nothing and
\* changes no counter.
C22_LocalReplyWritesCountsCloses ==
  \A i \in DOMAIN reply_calls :
    LET c == reply_calls[i] IN
    IF c.was_closed
    THEN /\ c.writes = 0 /\ c.wire_same /\ c.closes = <<>>
         /\ c.d_success = 0 /\ c.d_error = 0 /\ c.d_exception = 0
    ELSE /\ c.writes = 1 /\ c.wrote
         /\ c.d_success = (IF c.result = "SuccessReply" THEN 1 ELSE 0)
         /\ c.d_error = (IF c.result = "ErrorReply" THEN 1 ELSE 0)
         /\ c.d_exception = (IF c.result = "Exception" THEN 1 ELSE 0)
         /\ c.closes = (IF c.end_stream THEN <<"FlushWrite">> ELSE <<>>)
         /\ c.closed = c.end_stream

\* a handler replied on the open connection with a response that is not an
\* exception and ended the stream, and then replied again on the connection
\* it had closed
C22_RepliedOpenThenClosed ==
  \E i, j \in DOMAIN reply_calls :
    /\ ~reply_calls[i].was_closed /\ reply_calls[i].end_stream
    /\ reply_calls[i].result = "ErrorReply" /\ reply_calls[i].d_error = 1
    /\ reply_calls[j].was_closed

BranchAt(data) ==
  {i \in 0..(Len(data) - Len(BranchEq)) :
     SubSeq(data, i + 1, i + Len(BranchEq)) = BranchEq}
\* the positions (from 0) of the ';' and '>' of data at or after position from
StopsFrom(data, from) ==
  {j \in from..(Len(data) - 1) : data[j + 1] = ";" \/ data[j + 1] = ">"}
Least(S) == CHOOSE x \in S : \A y \in S : x <= y

\* C24: setTransactionId applied to a header value sets the transaction-id to
\* the substring that starts right after the first occurrence of 'branch=' and
\* ends before the next ';' or '>', or at the end of the value when neither
\* follows; a value without 'branch=' leaves the transaction-id as it was.
C24_TransactionIdIsBranchToken ==
  (header.done /\ header # NoHeader) =>
    LET data == header.data IN
    IF BranchAt(data) = {} THEN header.transaction_id = header.before
    ELSE LET start == Least(BranchAt(data)) + Len(BranchEq)
             stop == IF StopsFrom(data, start) = {} THEN Len(data)
                     ELSE Least(StopsFrom(data, start))
         IN header.transaction_id = {SubSeq(data, start + 1, stop)}

\* a value with 'branch=' twice and a token in between was parsed over an
\* earlier transaction-id
C24_ParsedSecondBranch ==
  /\ header.done /\ header.before # {}
  /\ Cardinality(BranchAt(header.data)) = 2
  /\ header.transaction_id # header.before
  /\ header.transaction_id # {<<>>}

\* ------------------------------------------------------- one reset per transaction
\* C25: an ActiveTrans receives onReset at most once over its lifetime,
\* whichever of the reset origins (downstream close, audit timeout, error)
\* act on it and in whatever order, so that doDeferredTransDestroy is never
\* invoked for a transaction-id that has left the transactions map.
C25_ResetAtMostOnce ==
  \A o \in DOMAIN objs : objs[o].resets <= 1

\* ------------------------------------------------------- handles of the table
\* C26: in every reachable state each TransactionInfoItem that is not marked
\* deleted holds the handle of an ActiveTrans that has not been destroyed, and
\* no response lookup hands a response to an ActiveTrans that has been
\* destroyed.
C26_LiveItemsHoldLiveHandles ==
  /\ \A p \in transaction_info_map :
        ~p[2].deleted => objs[p[2].active_trans].st # "destroyed"
  /\ \A i \in DOMAIN lookups :
        objs[lookups[i].yields].st # "destroyed"

\* ------------------------------------------------------- insertTransaction
\* C28: after insertTransaction(id, trans, req) returns, a lookup of id yields
\* an item whose activeTrans is trans and whose upstreamRequest is req, also
\* when an item for id, live or tombstoned, was already in the table.
C28_InsertedIsWhatLookupYields ==
  \A i \in DOMAIN inserts :
    /\ inserts[i].yields.active_trans = inserts[i].trans
    /\ inserts[i].yields.upstream_request = inserts[i].req

\* ------------------------------------------------------- TRA response after a reset
\* C29: a TRA RetrieveResponse that arrives after the downstream connection
\* was reset, with the suspended transaction removed from the transactions
\* map, does not resume decoding and does not cause the suspended message to
\* be forwarded upstream.
C29_LateRetrieveResumesNothing ==
  \A i \in DOMAIN tra_calls :
    LET c == tra_calls[i] IN
    (c.type = "Retrieve" /\ c.was_closed /\ ~c.was_indexed) =>
      c.redriven = 0 /\ c.forwarded = 0

\* ------------------------------------------------------- after a local reply
\* C30: once local_response_sent is true on an ActiveTrans it stays true, and
\* from then on no decoder filter of that transaction is invoked, for any
\* later stage or later message on it (an ACK that reuses the transaction
\* included); each such stage returns Continue.
C30_NoFilterAfterLocalReply ==
  /\ \A o \in DOMAIN objs : objs[o].ever_sent => objs[o].local_response_sent
  /\ \A k \in DOMAIN walks :
        /\ walks[k].kind = "invoke" => ~walks[k].sent
        /\ walks[k].kind = "skip" => walks[k].sent /\ walks[k].status = "Continue"

\* the stages of an ACK that took over a transaction which had replied locally
\* to its request were not walked
C30_AckOnRepliedTransaction ==
  \E k \in DOMAIN walks :
    /\ walks[k].kind = "skip" /\ walks[k].stage = 4
    /\ metadata[walks[k].md].method = "Ack"
    /\ objs[walks[k].trans].local_response_sent

\* ------------------------------------------------------- two downstream connections
\* C27: the response to a request is written only to the downstream
\* connection on which that request arrived, also when two connections of the
\* worker have requests with the same transaction-id in flight.
C27_ResponseGoesWhereRequestCame ==
  \A i \in DOMAIN response_calls :
    response_calls[i].writes > 0 => response_calls[i].conn = response_calls[i].asked_on

\* C31: newDecoderEventHandler constructs an ActiveTrans and creates its filter
\* chain only for a transaction that ends up indexed: whenever a call creates a
\* filter chain, the ActiveTrans it created it for is the one the transactions
\* map holds under the message's transaction-id after the call.
C31_ChainOnlyForIndexed ==
  \A i \in 1..Len(ndeh_calls) :
    ndeh_calls[i].chained # 0 =>
      <<ndeh_calls[i].tid, ndeh_calls[i].chained>> \in ndeh_calls[i].after

\* a non-ACK request whose transaction-id was indexed got a second ActiveTrans
\* and a second filter chain, and the map kept the first
C31_ChainForDiscarded ==
  \E i \in 1..Len(ndeh_calls) :
    /\ ndeh_calls[i].method # "Ack"
    /\ ndeh_calls[i].had # 0
    /\ ndeh_calls[i].made # 0
    /\ ndeh_calls[i].chained = ndeh_calls[i].made
    /\ ndeh_calls[i].after = ndeh_calls[i].before
    /\ ndeh_calls[i].ret = ndeh_calls[i].had
    /\ objs[ndeh_calls[i].made].st = "destroyed"

\* C32: a ConnectionManager whose settings configure no TRA gRPC service never
\* uses the TRA client: initializeReadFilterCallbacks and the destructor make
\* no call through tra_client_ unless the constructor created a client, and
\* every call they make goes to a created client.
C32_NoServiceNoClientUse ==
  /\ ~manager.has_grpc_service => manager.tra_uses = <<>>
  /\ \A i \in 1..Len(manager.tra_uses) : manager.tra_uses[i].on # NoClient

\* a manager without a TRA service was installed and called setRequestCallbacks
\* through its null tra_client_
C32_CallThroughNullClient ==
  /\ ~manager.has_grpc_service
  /\ manager.tra_client = NoClient
  /\ manager.tra_uses # <<>>
  /\ manager.tra_uses[1] = [call |-> "setRequestCallbacks", on |-> NoClient]

====
